---- MODULE Spec2Model ----
\* A model of sync-notes (src/main.py): a local folder is mirrored to one
\* Google Drive folder.  main() finds or creates the Drive folder, uploads the
\* files already present (sync_existing_files), then starts a recursive
\* watchdog observer whose single dispatcher thread calls
\* FileSyncHandler.on_created / on_modified, which call upload_file.
EXTENDS Integers, Sequences, FiniteSets, TLC

\* ---------------------------------------------------------------- bounds
\* Number of changes the environment makes to the local folder in one run.
MaxFsOps == 2
\* File contents are the numbers 1..MaxContent.
MaxContent == 2

\* ---------------------------------------------------------- configuration
DRIVE_FOLDER_NAME == "synced-files"
FolderMime == "application/vnd.google-apps.folder"
OctetStream == "application/octet-stream"
\* The id of "My Drive", the parent of objects created without 'parents'.
RootId == 0

\* ------------------------------------------------------- local file system
\* A path is the sequence of its components below LOCAL_FOLDER.
PathA == <<"a.txt">>
PathB == <<"b">>
PathD == <<"d">>
PathDA == <<"d", "a.txt">>
Paths == {PathA, PathB, PathD, PathDA}
FilePaths == {PathA, PathB, PathDA}
Contents == 1..MaxContent
\* The names files are uploaded under.
Names == {p[Len(p)] : p \in FilePaths}

Absent == [kind |-> "absent", content |-> 0]
Dir == [kind |-> "dir", content |-> 0]
RegFile(c) == [kind |-> "file", content |-> c]

\* The local folders a run starts from; d is a subdirectory in all of them.
InitFiles ==
  { [p \in Paths |-> IF p = PathD THEN Dir ELSE Absent],
    [p \in Paths |-> IF p = PathD THEN Dir ELSE IF p = PathA THEN RegFile(1) ELSE Absent],
    [p \in Paths |-> IF p = PathD THEN Dir ELSE IF p = PathB THEN Absent ELSE RegFile(1)],
    [p \in Paths |-> IF p = PathD THEN Dir ELSE IF p = PathDA THEN RegFile(1) ELSE RegFile(2)] }

\* ------------------------------------------------------------ remote drive
\* The drive is the sequence of its objects, an object's id being its index
\* (the program never deletes an object).
DriveFolder(p) ==
  [name |-> DRIVE_FOLDER_NAME, parent |-> p, mimeType |-> FolderMime,
   trashed |-> FALSE, content |-> 0]
DriveFile(n, p, t, c) ==
  [name |-> n, parent |-> p, mimeType |-> OctetStream, trashed |-> t, content |-> c]

\* The drives a run starts from: no folder yet; an empty folder; a folder that
\* holds a.txt; two objects named a.txt; a trashed a.txt; an a.txt outside the
\* folder and a b inside it.
InitDrives ==
  { <<>>,
    <<DriveFolder(RootId)>>,
    <<DriveFolder(RootId), DriveFile("a.txt", 1, FALSE, 1)>>,
    <<DriveFolder(RootId), DriveFile("a.txt", 1, FALSE, 1), DriveFile("a.txt", 1, FALSE, 2)>>,
    <<DriveFolder(RootId), DriveFile("a.txt", 1, TRUE, 1)>>,
    <<DriveFolder(RootId), DriveFile("a.txt", RootId, FALSE, 1), DriveFile("b", 1, FALSE, 2)>> }

\* Drives whose objects of the configured name are not all live folders: a
\* trashed folder and a plain file; a trashed folder before two live ones.
InitFolderDrives ==
  { <<[DriveFolder(RootId) EXCEPT !.trashed = TRUE],
      DriveFile(DRIVE_FOLDER_NAME, RootId, FALSE, 1)>>,
    <<[DriveFolder(RootId) EXCEPT !.trashed = TRUE], DriveFolder(RootId), DriveFolder(RootId)>> }

VARIABLES
  fs,              \* the local folder: path -> [kind, content]
  fsOps,           \* number of changes made to the local folder so far
  drive,           \* the remote drive: sequence of objects
  mainPc,          \* position of main()
  drive_folder_id, \* main's drive_folder_id / FileSyncHandler.drive_folder_id
  all_files,       \* sync_existing_files: entries of glob('*') not yet visited
  up,              \* per thread: the upload_file call in progress
  observer,        \* state of the watchdog observer thread
  queue,           \* the observer's event queue
  last,            \* history: per name, the handler's upload_file call that
                   \* finished last
  scanned          \* history: the finished upload_file calls of the running
                   \* sync_existing_files, in order (empty once it has returned)

vars == <<fs, fsOps, drive, mainPc, drive_folder_id, all_files, up, observer, queue, last, scanned>>

Threads == {"main", "obs"}
NoCall == [op |-> "none", fileId |-> 0, name |-> "", parent |-> 0, mime |-> "", content |-> 0]
Idle == [pc |-> "idle", src |-> "", path |-> <<>>, snap |-> <<>>, files |-> <<>>, call |-> NoCall]

\* A name that is the path's first component instead of its last.
NameOfTop(path) == path[1]

\* ------------------------------------------------------------ pure helpers
\* Path(file_path).name: the final path component.
Name(path) == path[Len(path)]

\* mimetypes.guess_type, then the fallback of upload_file.
GuessType(name) == IF name = "a.txt" THEN "text/plain" ELSE "None"
MimeType(path) ==
  IF GuessType(Name(path)) = "None" THEN OctetStream ELSE GuessType(Name(path))

Ids(d) == [i \in 1..Len(d) |-> i]

\* ListFiles without the trashed=false term of the query.
ListFilesTrashedToo(d, n, folder) ==
  SelectSeq(Ids(d), LAMBDA i : d[i].name = n /\ d[i].parent = folder)

\* files().list(q="name='<n>' and parents in '<folder>' and trashed=false"):
\* the ids of the matching objects, in the drive's order.
ListFiles(d, n, folder) ==
  SelectSeq(Ids(d), LAMBDA i : d[i].name = n /\ d[i].parent = folder /\ ~d[i].trashed)

\* The folder lookup without its trashed=false condition.
ListFoldersTrashedToo(d, n) ==
  SelectSeq(Ids(d), LAMBDA i : d[i].name = n /\ d[i].mimeType = FolderMime)

\* files().list(q="name='<n>' and mimeType='...folder' and trashed=false").
ListFolders(d, n) ==
  SelectSeq(Ids(d), LAMBDA i : d[i].name = n /\ d[i].mimeType = FolderMime /\ ~d[i].trashed)

\* The request upload_file builds once the lookup returned `files` (the
\* 'files' list of the response) and the file was opened and read.
\* UpdateCall against the last match instead of the first.
UpdateCallLast(files, path, content) ==
  [op |-> "update", fileId |-> files[Len(files)], name |-> "", parent |-> 0,
   mime |-> MimeType(path), content |-> content]

UpdateCall(files, path, content) ==
  [op |-> "update", fileId |-> files[1], name |-> "", parent |-> 0,
   mime |-> MimeType(path), content |-> content]
CreateCall(folder, path, content) ==
  [op |-> "create", fileId |-> 0, name |-> Name(path), parent |-> folder,
   mime |-> MimeType(path), content |-> content]
\* BuildCall with a fingerprint comparison: no request when the first match
\* already holds the content.
BuildCallSkipEqual(files, folder, path, content) ==
  IF files # <<>> /\ drive[files[1]].content = content THEN NoCall
  ELSE IF files # <<>> THEN UpdateCall(files, path, content)
  ELSE CreateCall(folder, path, content)

\* BuildCall without the existence check: always a create.
BuildCallAlwaysCreate(files, folder, path, content) ==
  CreateCall(folder, path, content)

BuildCall(files, folder, path, content) ==
  IF files # <<>> THEN UpdateCall(files, path, content)
  ELSE CreateCall(folder, path, content)

\* The drive after the service executed a request.
Apply(d, c) ==
  IF c.op = "update"
    THEN [d EXCEPT ![c.fileId].content = c.content, ![c.fileId].mimeType = c.mime]
  ELSE IF c.op = "create"
    THEN Append(d, [name |-> c.name, parent |-> c.parent, mimeType |-> c.mime,
                    trashed |-> FALSE, content |-> c.content])
  ELSE d

\* `except Exception as e` of upload_file: the errors it catches.
Errors == {"lookup", "io", "upload"}
\* An except clause that lets lookup errors through.
CaughtNoLookup(e) == e \in {"io", "upload"}
\* An except clause around the file handling only.
CaughtNoUpload(e) == e \in {"lookup", "io"}
\* An except clause that lets the IOError of a vanished file through.
CaughtNoIo(e) == e \in Errors \ {"io"}

Caught(e) == e \in Errors

\* A handler without the is_directory test.
UploadsDirsToo(ev) == ev.kind \in {"created", "modified"}

\* A handler that debounces: no upload_file call for a file whose bytes the
\* last call for it has uploaded.
UploadsDebounced(ev) ==
  /\ ev.kind \in {"created", "modified"} /\ ~ev.is_directory
  /\ ~ /\ last[ev.path[Len(ev.path)]].err = "none"
       /\ last[ev.path[Len(ev.path)]].path = ev.path
       /\ last[ev.path[Len(ev.path)]].call.content = fs[ev.path].content

\* FileSyncHandler.on_modified / on_created: does the event lead to upload_file?
Uploads(ev) == ev.kind \in {"created", "modified"} /\ ~ev.is_directory

\* A recursive listing: glob('**/*').
GlobRecursive(f) == {p \in Paths : f[p].kind # "absent"}

\* Path(local_folder).glob('*'): the entries directly inside the folder.
Glob(f) == {p \in Paths : Len(p) = 1 /\ f[p].kind # "absent"}
\* Path.is_file()
IsFile(f, p) == f[p].kind = "file"

\* All orders in which a set of paths can be enumerated.
Orders(S) ==
  {q \in [1..Cardinality(S) -> S] : \A i, j \in 1..Cardinality(S) : q[i] = q[j] => i = j}

\* The environment's changes are followed while they can meet the program:
\* during the startup scan and while the observer watches.
Running == mainPc \in {"scan", "sleep"}

\* ------------------------------------------------ upload_file: bookkeeping
\* The entry of upload_file(path) on thread t.
Begin(t, src, path) ==
  [pc |-> "list", src |-> src, path |-> path, snap |-> <<>>, files |-> <<>>, call |-> NoCall]

\* The record of a finished upload_file call.
Entry(u, err, caught) ==
  [src |-> u.src, path |-> u.path, call |-> u.call, err |-> err, caught |-> caught]

Finish(t, err, caught) ==
  /\ up' = [up EXCEPT ![t] = Idle]
  /\ IF up[t].src = "scan"
       THEN scanned' = Append(scanned, Entry(up[t], err, caught)) /\ UNCHANGED last
       ELSE /\ last' = [last EXCEPT ![Name(up[t].path)] = Entry(up[t], err, caught)]
            /\ UNCHANGED scanned

\* ----------------------------------------------------------------- initial
Init ==
  /\ \/ fs \in InitFiles /\ drive \in InitDrives
     \/ fs = [p \in Paths |-> IF p = PathD THEN Dir ELSE IF p = PathA THEN RegFile(1) ELSE Absent]
          /\ drive \in InitFolderDrives
  /\ fsOps = 0
  /\ mainPc = "folder"
  /\ drive_folder_id = 0
  /\ all_files = <<>>
  /\ up = [t \in Threads |-> Idle]
  /\ observer = "unstarted"
  /\ queue = <<>>
  /\ last = [n \in Names |-> Entry(Idle, "none", TRUE)]
  /\ scanned = <<>>

\* ------------------------------------------------------------- upload_file
\* upload_file returns normally: after its last statement, or after its
\* except clause printed the error.
Return(t, err) ==
  /\ Finish(t, err, TRUE)
  /\ UNCHANGED <<mainPc, observer>>

\* An exception the except clause does not catch leaves upload_file: it ends
\* main() on the main thread, and the observer thread on the observer's.
Propagate(t, err) ==
  /\ Finish(t, err, FALSE)
  /\ IF t = "main"
       THEN mainPc' = "crashed" /\ UNCHANGED observer
       ELSE observer' = "dead" /\ UNCHANGED mainPc

Raise(t, err) == IF Caught(err) THEN Return(t, err) ELSE Propagate(t, err)

\* lines 39-43: the lookup succeeds and returns the matches.
ListOk(t) ==
  /\ up[t].pc = "list"
  /\ up' = [up EXCEPT ![t].pc = "send", ![t].snap = drive,
                      ![t].files = ListFiles(drive, Name(up[t].path), drive_folder_id)]
  /\ UNCHANGED <<fs, fsOps, drive, mainPc, drive_folder_id, all_files, observer, queue, last, scanned>>

\* lines 39-43: the lookup raises.
ListFail(t) ==
  /\ up[t].pc = "list"
  /\ Raise(t, "lookup")
  /\ UNCHANGED <<fs, fsOps, drive, drive_folder_id, all_files, queue>>

\* lines 45-57 / 45-70: MediaFileUpload opens the file and the request is
\* built from its bytes; the request is then in flight.
Send(t) ==
  /\ up[t].pc = "send"
  /\ IsFile(fs, up[t].path)
  /\ up' = [up EXCEPT ![t].pc = "recv",
                      ![t].call = BuildCall(up[t].files, drive_folder_id, up[t].path,
                                            fs[up[t].path].content)]
  /\ UNCHANGED <<fs, fsOps, drive, mainPc, drive_folder_id, all_files, observer, queue, last, scanned>>

\* line 50: the file is gone, MediaFileUpload raises.
SendFail(t) ==
  /\ up[t].pc = "send"
  /\ ~IsFile(fs, up[t].path)
  /\ Raise(t, "io")
  /\ UNCHANGED <<fs, fsOps, drive, drive_folder_id, all_files, queue>>

\* lines 58-59 / 70-71: execute() returns, the service applied the request.
RecvOk(t) ==
  /\ up[t].pc = "recv"
  /\ drive' = Apply(drive, up[t].call)
  /\ Return(t, "none")
  /\ UNCHANGED <<fs, fsOps, drive_folder_id, all_files, queue>>

\* lines 58 / 70: execute() raises, the service applied nothing.
RecvFail(t) ==
  /\ up[t].pc = "recv"
  /\ Raise(t, "upload")
  /\ UNCHANGED <<fs, fsOps, drive, drive_folder_id, all_files, queue>>

\* ------------------------------------------------------------------- main
\* create_drive_folder, lines 104-124 (called at line 147).  An exception of
\* either request is caught nowhere and ends main().
CreateDriveFolderFound ==
  /\ mainPc = "folder"
  /\ ListFolders(drive, DRIVE_FOLDER_NAME) # <<>>
  /\ drive_folder_id' = ListFolders(drive, DRIVE_FOLDER_NAME)[1]
  /\ mainPc' = "glob"
  /\ UNCHANGED <<fs, fsOps, drive, all_files, up, observer, queue, last, scanned>>

CreateDriveFolderNew ==
  /\ mainPc = "folder"
  /\ ListFolders(drive, DRIVE_FOLDER_NAME) = <<>>
  /\ drive' = Append(drive, DriveFolder(RootId))
  /\ drive_folder_id' = Len(drive) + 1
  /\ mainPc' = "glob"
  /\ UNCHANGED <<fs, fsOps, all_files, up, observer, queue, last, scanned>>

CreateDriveFolderFail ==
  /\ mainPc = "folder"
  /\ mainPc' = "crashed"
  /\ UNCHANGED <<fs, fsOps, drive, drive_folder_id, all_files, up, observer, queue, last, scanned>>

\* sync_existing_files, line 128: the directory is listed, in some order.
SyncGlob ==
  /\ mainPc = "glob"
  /\ all_files' \in Orders(Glob(fs))
  /\ mainPc' = "scan"
  /\ UNCHANGED <<fs, fsOps, drive, drive_folder_id, up, observer, queue, last, scanned>>

\* sync_existing_files, lines 129-132: the next entry; a regular file is
\* handed to upload_file.
SyncNext ==
  /\ mainPc = "scan"
  /\ up["main"].pc = "idle"
  /\ all_files # <<>>
  /\ all_files' = Tail(all_files)
  /\ up' = [up EXCEPT !["main"] =
              IF IsFile(fs, Head(all_files)) THEN Begin("main", "scan", Head(all_files))
              ELSE Idle]
  /\ UNCHANGED <<fs, fsOps, drive, mainPc, drive_folder_id, observer, queue, last, scanned>>

\* The scan's order of main(): sync_existing_files returns, then the
\* observer is created, scheduled and started (lines 151-160).
ScanDone == up["main"].pc = "idle" /\ all_files = <<>>
\* The observer started without waiting for sync_existing_files to return.
MayStartObserverEarly == mainPc = "scan"
MayStartObserver == mainPc = "scan" /\ ScanDone

StartObserver ==
  /\ MayStartObserver
  /\ observer = "unstarted"
  /\ observer' = "running"
  /\ mainPc' = "sleep"
  /\ scanned' = <<>>
  /\ UNCHANGED <<fs, fsOps, drive, drive_folder_id, all_files, up, queue, last>>

\* lines 162-167: KeyboardInterrupt in the sleep loop; observer.stop().
Interrupt ==
  /\ mainPc = "sleep"
  /\ mainPc' = "join"
  /\ observer' = IF observer = "running" THEN "stopping" ELSE observer
  /\ UNCHANGED <<fs, fsOps, drive, drive_folder_id, all_files, up, queue, last, scanned>>

\* line 169: observer.join() returns once the observer thread has ended.
Join ==
  /\ mainPc = "join"
  /\ observer \in {"stopped", "dead"}
  /\ mainPc' = "exited"
  /\ UNCHANGED <<fs, fsOps, drive, drive_folder_id, all_files, up, observer, queue, last, scanned>>

\* KeyboardInterrupt before the sleep loop is caught nowhere (it is no
\* Exception): main() ends.  A request in flight may or may not have reached
\* the service.
Kill ==
  /\ mainPc \in {"folder", "glob", "scan"}
  /\ mainPc' = "killed"
  /\ up' = [up EXCEPT !["main"] = Idle]
  /\ drive' \in {drive, Apply(drive, up["main"].call)}
  /\ UNCHANGED <<fs, fsOps, drive_folder_id, all_files, observer, queue, last, scanned>>

\* An observer thread that goes on taking events after observer.stop().
DispatchAfterStop ==
  /\ observer \in {"running", "stopping", "stopped"}
  /\ up["obs"].pc = "idle"
  /\ queue # <<>>
  /\ queue' = Tail(queue)
  /\ up' = [up EXCEPT !["obs"] =
              IF Uploads(Head(queue)) THEN Begin("obs", "event", Head(queue).path)
              ELSE Idle]
  /\ UNCHANGED <<fs, fsOps, drive, mainPc, drive_folder_id, all_files, observer, last, scanned>>

\* --------------------------------------------------------------- observer
\* The observer thread takes the next event and calls the handler
\* (lines 25-33): upload_file for a created or modified file, nothing else.
Dispatch ==
  /\ observer = "running"
  /\ up["obs"].pc = "idle"
  /\ queue # <<>>
  /\ queue' = Tail(queue)
  /\ up' = [up EXCEPT !["obs"] =
              IF Uploads(Head(queue)) THEN Begin("obs", "event", Head(queue).path)
              ELSE Idle]
  /\ UNCHANGED <<fs, fsOps, drive, mainPc, drive_folder_id, all_files, observer, last, scanned>>

\* After observer.stop() the thread ends when the handler has returned.
ObserverExit ==
  /\ observer = "stopping"
  /\ up["obs"].pc = "idle"
  /\ observer' = "stopped"
  /\ UNCHANGED <<fs, fsOps, drive, mainPc, drive_folder_id, all_files, up, queue, last, scanned>>

\* ------------------------------------------------------------ environment
Event(kind, path, isDir) == [kind |-> kind, path |-> path, is_directory |-> isDir]

\* The events the running observer queues for a change (recursive=True).
Emit(evs) == queue' = IF observer = "running" THEN queue \o evs ELSE queue

\* A file is created or rewritten, possibly with the bytes it had; creating
\* a file in d also modifies d.
FsWrite(p, c) ==
  /\ Running
  /\ fsOps < MaxFsOps
  /\ fs' = [fs EXCEPT ![p] = RegFile(c)]
  /\ fsOps' = fsOps + 1
  /\ Emit(IF fs[p].kind = "file" THEN <<Event("modified", p, FALSE)>>
          ELSE IF Len(p) = 1 THEN <<Event("created", p, FALSE)>>
          ELSE <<Event("created", p, FALSE), Event("modified", PathD, TRUE)>>)
  /\ UNCHANGED <<drive, mainPc, drive_folder_id, all_files, up, observer, last, scanned>>

\* A file is deleted.
FsDelete(p) ==
  /\ Running
  /\ fsOps < MaxFsOps
  /\ fs[p].kind = "file"
  /\ fs' = [fs EXCEPT ![p] = Absent]
  /\ fsOps' = fsOps + 1
  /\ Emit(<<Event("deleted", p, FALSE)>>)
  /\ UNCHANGED <<drive, mainPc, drive_folder_id, all_files, up, observer, last, scanned>>

\* ----------------------------------------------------------- specification
Next ==
  \/ CreateDriveFolderFound
  \/ CreateDriveFolderNew
  \/ CreateDriveFolderFail
  \/ SyncGlob
  \/ SyncNext
  \/ StartObserver
  \/ Interrupt
  \/ Join
  \/ Kill
  \/ Dispatch
  \/ ObserverExit
  \/ \E t \in Threads : ListOk(t) \/ ListFail(t) \/ Send(t) \/ SendFail(t)
                          \/ RecvOk(t) \/ RecvFail(t)
  \/ \E p \in FilePaths : FsDelete(p) \/ \E c \in Contents : FsWrite(p, c)

Spec == Init /\ [][Next]_vars

\* A step of the upload_file call the observer thread is in.
ObserverStep ==
  \/ ListOk("obs") \/ ListFail("obs")
  \/ Send("obs") \/ SendFail("obs")
  \/ RecvOk("obs") \/ RecvFail("obs")

\* The threads are scheduled: a request of the handler returns or raises,
\* the stopped observer thread ends, and observer.join() returns.
FairSpec ==
  /\ Spec
  /\ WF_vars(ObserverStep)
  /\ WF_vars(ObserverExit)
  /\ WF_vars(Join)


\* ================================================================ claims
\* Objects of the drive d that a lookup of name n in the folder must find.
Present(d, n) ==
  {i \in DOMAIN d : d[i].name = n /\ d[i].parent = drive_folder_id /\ ~d[i].trashed}
\* The smallest member of a non-empty set of ids.
Least(S) == CHOOSE i \in S : \A j \in S : i <= j
\* The upload_file call of thread t has issued its request.
Issued(t) == up[t].pc = "recv"
\* The upload_file call of thread t ends in this step, and not by a kill.
Ends(t) == up[t].pc # "idle" /\ up'[t].pc = "idle" /\ mainPc' # "killed"

\* ------------------------------------------------------------------- C1
\* A request issued after a lookup that had nothing to find is a create of
\* name = final path component, parent = the folder.
C1_Inv ==
  \A t \in Threads :
    (Issued(t) /\ Present(up[t].snap, Name(up[t].path)) = {}) =>
      /\ up[t].call.op = "create"
      /\ up[t].call.name = up[t].path[Len(up[t].path)]
      /\ up[t].call.parent = drive_folder_id
      /\ up[t].snap = drive
\* When that request succeeds the drive gains exactly one object, the one
\* created, and no object is updated.
C1_Step ==
  \A t \in Threads :
    (Issued(t) /\ Present(drive, Name(up[t].path)) = {} /\ Ends(t) /\ drive' # drive) =>
      /\ Len(drive') = Len(drive) + 1
      /\ SubSeq(drive', 1, Len(drive)) = drive
      /\ drive'[Len(drive')].name = up[t].path[Len(up[t].path)]
      /\ drive'[Len(drive')].parent = drive_folder_id
      /\ drive'[Len(drive')].content = up[t].call.content

\* C1: an upload_file call whose lookup succeeded and found no non-trashed
\* object of the file's name in the folder, and whose file could be read,
\* issues exactly one request, a create carrying name = the final path
\* component and parent = the folder, and no update, whatever the content.
C1_NoDescriptorYieldsCreate == []C1_Inv /\ [][C1_Step]_vars

\* C1 witness: a create is in flight for a name of which the folder holds
\* only a trashed object.
C1_Witness ==
  \E t \in Threads :
    /\ Issued(t)
    /\ Present(up[t].snap, Name(up[t].path)) = {}
    /\ up[t].call.op = "create"
    /\ \E i \in DOMAIN drive : drive[i].name = Name(up[t].path) /\ drive[i].trashed

\* ------------------------------------------------------------------- C2
\* C2 as stated: every upload_file call for a name that has an object in the
\* folder ends having issued an update against the first such object.
C2_AsStated ==
  [][\A t \in Threads :
       (Ends(t) /\ Present(drive, Name(up[t].path)) # {}) =>
         /\ up[t].call.op = "update"
         /\ up[t].call.fileId = Least(Present(drive, Name(up[t].path)))]_vars

\* A request issued after a lookup that had something to find is an update
\* of the first object found.
C2_Inv ==
  \A t \in Threads :
    (Issued(t) /\ Present(up[t].snap, Name(up[t].path)) # {}) =>
      /\ up[t].call.op = "update"
      /\ up[t].call.fileId = Least(Present(up[t].snap, Name(up[t].path)))
\* That request creates nothing and leaves every other object as it was.
C2_Step ==
  \A t \in Threads :
    (Issued(t) /\ Present(drive, Name(up[t].path)) # {} /\ Ends(t)) =>
      /\ Len(drive') = Len(drive)
      /\ \A i \in DOMAIN drive :
           i # Least(Present(drive, Name(up[t].path))) => drive'[i] = drive[i]

\* C2 (amended): an upload_file call whose lookup succeeded and found one or
\* more objects of the file's name in the folder, and whose file could be
\* opened, issues an update against the first object found and never a
\* create; several matches are no error and only the first is touched.
C2_ExistingYieldsUpdate == []C2_Inv /\ [][C2_Step]_vars

\* C2 witness: an update is in flight while the folder holds two objects of
\* the name.
C2_Witness ==
  \E t \in Threads :
    /\ Issued(t)
    /\ Cardinality(Present(up[t].snap, Name(up[t].path))) > 1
    /\ up[t].call.op = "update"

\* ------------------------------------------------------------------- C3
\* C3 as stated: every created or modified event on a regular file ends
\* having issued a create or an update.
C3_AsStated ==
  [][(Ends("obs") /\ up["obs"].src = "event") =>
       up["obs"].call.op \in {"create", "update"}]_vars

\* A handler call that issued a request, or ended without error, issued a
\* create or an update.
C3_Inv ==
  /\ Issued("obs") => up["obs"].call.op \in {"create", "update"}
  /\ \A n \in Names :
       (last[n].src = "event" /\ last[n].err = "none") =>
         last[n].call.op \in {"create", "update"}
\* Once the lookup returned, a file that can be opened is sent; an event is
\* dropped without a handler call only if it is a directory's or of another
\* kind.
C3_Step ==
  /\ (up["obs"].pc = "send" /\ up'["obs"] # up["obs"] /\ IsFile(fs, up["obs"].path)) =>
       up'["obs"].pc = "recv"
  /\ (up["obs"].pc = "idle" /\ up'["obs"] = up["obs"] /\ queue # <<>> /\ queue' = Tail(queue)) =>
       (Head(queue).is_directory \/ Head(queue).kind \notin {"created", "modified"})

\* C3 (amended): the handler never skips: every created or modified event on
\* a regular file is handed to upload_file, which issues a create or an
\* update whenever its lookup succeeds and the file can be opened, also when
\* the drive already holds the same content; no content is compared.
C3_WatchNeverSkips == []C3_Inv /\ [][C3_Step]_vars

\* C3 witness: an update is in flight for an event whose file holds what the
\* drive already holds.
C3_Witness ==
  /\ Issued("obs")
  /\ up["obs"].call.op = "update"
  /\ drive[up["obs"].call.fileId].content = up["obs"].call.content

\* ------------------------------------------------------------------- C4
\* A failed lookup of the scan leaves the loop where it was, and the loop
\* hands every further regular file to upload_file.
C4_Step ==
  /\ (up["main"].pc = "list" /\ Ends("main")) =>
       /\ mainPc' = "scan"
       /\ all_files' = all_files
       /\ Len(scanned') = Len(scanned) + 1
  /\ (mainPc = "scan" /\ all_files # <<>> /\ all_files' # all_files /\ mainPc' # "killed") =>
       /\ all_files' = Tail(all_files)
       /\ IsFile(fs, Head(all_files)) =>
            (up'["main"].pc = "list" /\ up'["main"].path = Head(all_files))
\* The observer is started only when no entry is left; when the scan of an
\* unchanged folder returns, every regular file in it has been reconciled,
\* with a create or an update unless one of its own calls failed.
C4_Inv ==
  /\ observer # "unstarted" => all_files = <<>>
  /\ (mainPc = "scan" /\ ScanDone /\ fsOps = 0) =>
       \A p \in Paths :
         (Len(p) = 1 /\ fs[p].kind = "file") =>
           \E i \in DOMAIN scanned :
             /\ scanned[i].path = p
             /\ scanned[i].err = "none" => scanned[i].call.op \in {"create", "update"}

\* C4: in the startup scan an error of the lookup for a file A does not keep
\* any file B enumerated after A from being reconciled: B is looked up and
\* ends with its own outcome, in every order and whichever lookups fail.
C4_LookupErrorDoesNotStopScan == []C4_Inv /\ [][C4_Step]_vars

\* C4 witness: the scan has returned; the lookup of the first file failed,
\* the second file was uploaded.
C4_Witness ==
  /\ mainPc = "scan" /\ ScanDone
  /\ Len(scanned) = 2
  /\ scanned[1].err = "lookup"
  /\ scanned[2].err = "none"
  /\ scanned[2].call.op \in {"create", "update"}

\* ------------------------------------------------------------------- C5
\* The step in which a request ends, failed or not, changes neither main()'s
\* position nor the entries still to visit nor the observer nor its queue.
C5_Step ==
  \A t \in Threads :
    (Issued(t) /\ Ends(t)) =>
      /\ mainPc' = mainPc
      /\ all_files' = all_files
      /\ observer' = observer
      /\ queue' = queue
\* The observer thread never dies, main() dies only in create_drive_folder,
\* and every error of an upload_file call was caught in it.
C5_Inv ==
  /\ observer # "dead"
  /\ mainPc = "crashed" => drive_folder_id = 0
  /\ \A i \in DOMAIN scanned : scanned[i].caught
  /\ \A n \in Names : last[n].caught

\* C5: a failed create or update of one file is caught inside upload_file
\* and neither aborts the startup scan nor stops the observer: the remaining
\* files of the scan and the later events are still processed.
C5_MutationFailureIsCaught == []C5_Inv /\ [][C5_Step]_vars

\* C5 witness: the request of an event failed, and the observer runs with a
\* further event waiting.
C5_Witness ==
  /\ \E n \in Names : last[n].src = "event" /\ last[n].err = "upload"
  /\ observer = "running"
  /\ queue # <<>>

\* ------------------------------------------------------------------- C6
\* At most one upload_file call runs at a time, hence at most one request is
\* in flight.
C6_Inv ==
  /\ ~(up["main"].pc # "idle" /\ up["obs"].pc # "idle")
  /\ Cardinality({t \in Threads : Issued(t)}) <= 1
\* The observer takes an event only when its handler has returned.
C6_Step ==
  (queue # <<>> /\ queue' = Tail(queue)) => up["obs"].pc = "idle"

\* C6: never more than one create or update is in flight for one path: the
\* calls of the startup scan and of the event handler are strictly
\* serialized, and events wait while an upload runs.
C6_OneMutationInFlight == []C6_Inv /\ [][C6_Step]_vars

\* C6 witness: a request is in flight for a file while a later event for the
\* same file waits in the queue.
C6_Witness ==
  /\ Issued("obs")
  /\ queue # <<>>
  /\ Head(queue).path = up["obs"].path

\* ------------------------------------------------------------------- C7
\* C7: when the handler call that ended last for a name ended without error,
\* the first object of that name in the folder holds the content that call
\* read; and a request in flight was decided on the drive as it still is, so
\* no earlier upload lands after a later one.
C7_LastWriterWins ==
  /\ \A n \in Names :
       (last[n].src = "event" /\ last[n].err = "none") =>
         /\ Present(drive, n) # {}
         /\ drive[Least(Present(drive, n))].content = last[n].call.content
  /\ \A t \in Threads : Issued(t) => up[t].snap = drive

\* C7 witness: two changes of one file were handled; the call that ended
\* last was an update, and the objects of the name hold what it read.
C7_Witness ==
  \E n \in Names :
    /\ last[n].src = "event" /\ last[n].err = "none"
    /\ last[n].call.op = "update"
    /\ fsOps >= 2
    /\ queue = <<>>
    /\ \A i \in DOMAIN drive : drive[i].name = n /\ drive[i].parent = drive_folder_id
                                 => drive[i].content = last[n].call.content

\* ------------------------------------------------------------------- C8
\* C8: in the startup scan no create or update is issued for a file whose
\* first remote match holds the content the file holds (equal contents have
\* equal fingerprints).
C8_BatchSkipsEqualFingerprint ==
  ~ /\ Issued("main")
    /\ up["main"].src = "scan"
    /\ up["main"].files # <<>>
    /\ up["main"].call.op \in {"create", "update"}
    /\ drive[up["main"].files[1]].content = up["main"].call.content

\* ------------------------------------------------------------------- C9
\* C9: while main() has not left the startup scan the observer is not
\* started, its queue is empty and no handler runs; once it is started, no
\* upload_file call of the scan is running or pending.
C9_ScanBeforeWatch ==
  /\ mainPc \in {"folder", "glob", "scan"} =>
       (observer = "unstarted" /\ queue = <<>> /\ up["obs"].pc = "idle")
  /\ observer # "unstarted" => (up["main"].pc = "idle" /\ all_files = <<>>)

\* C9 witness: the scan has reconciled two files, the folder changed
\* meanwhile, and the observer is not started yet.
C9_Witness ==
  /\ mainPc = "scan" /\ ScanDone
  /\ Len(scanned) = 2
  /\ fsOps > 0
  /\ observer = "unstarted"

\* ------------------------------------------------------------------ C10
\* The scan hands to upload_file only direct children of the folder that are
\* regular files, each at most once, and, the folder being unchanged, all of
\* them.
C10_Inv ==
  /\ \A i \in DOMAIN scanned :
       /\ Len(scanned[i].path) = 1
       /\ scanned[i].path # PathD
       /\ \A j \in DOMAIN scanned : scanned[i].path = scanned[j].path => i = j
  /\ up["main"].pc # "idle" =>
       /\ Len(up["main"].path) = 1
       /\ up["main"].path # PathD
       /\ \A i \in DOMAIN scanned : scanned[i].path # up["main"].path
  /\ (mainPc = "scan" /\ ScanDone /\ fsOps = 0) =>
       {scanned[i].path : i \in DOMAIN scanned} = {p \in Paths : Len(p) = 1 /\ fs[p].kind = "file"}
\* The observer hands every created or modified file event to upload_file,
\* whatever the depth of its path.
C10_Step ==
  (queue # <<>> /\ queue' = Tail(queue) /\ ~Head(queue).is_directory
     /\ Head(queue).kind \in {"created", "modified"}) =>
    (up'["obs"].pc = "list" /\ up'["obs"].path = Head(queue).path)

\* C10: the startup scan reconciles exactly the regular files directly in
\* the folder, each once, never a subdirectory or a file inside one; events
\* for files inside subdirectories are reconciled once the observer runs.
C10_ScanFlatWatchRecursive == []C10_Inv /\ [][C10_Step]_vars

\* C10 witness: the scan is over and the handler uploads d/a.txt, a file of
\* the subdirectory.
C10_Witness ==
  /\ Issued("obs")
  /\ up["obs"].path = PathDA
  /\ mainPc = "sleep"

\* ------------------------------------------------------------------ C11
\* The observer takes one event at a time: a directory's event starts no
\* upload_file call and leaves the drive alone, a created or modified
\* file's event starts exactly one call, on the event's path.
C11_Step ==
  (queue # <<>> /\ queue' = Tail(queue)) =>
    /\ drive' = drive
    /\ Head(queue).is_directory => up'["obs"].pc = "idle"
    /\ (~Head(queue).is_directory /\ Head(queue).kind \in {"created", "modified"}) =>
         (up["obs"].pc = "idle" /\ up'["obs"].pc = "list" /\ up'["obs"].path = Head(queue).path)
\* Once create_drive_folder has returned, no step changes the folder id.
C11_FolderStep ==
  mainPc # "folder" => drive_folder_id' = drive_folder_id
\* A handler call runs only with the folder id set, looks up in that folder
\* and creates in it.
C11_Inv ==
  up["obs"].pc # "idle" =>
    /\ drive_folder_id # 0
    /\ drive_folder_id \in DOMAIN drive
    /\ drive[drive_folder_id].name = DRIVE_FOLDER_NAME
    /\ \A k \in DOMAIN up["obs"].files :
         up["obs"].snap[up["obs"].files[k]].parent = drive_folder_id
    /\ up["obs"].call.op = "create" => up["obs"].call.parent = drive_folder_id

\* C11: while watching, a created or modified event of a directory causes no
\* remote call (no lookup, no create, no update); an event of a regular file
\* causes exactly one upload_file call, against the folder id established at
\* startup, which no handler changes.
C11_DirectoryEventsIgnored == []C11_Inv /\ [][C11_Step /\ C11_FolderStep]_vars

\* C11 witness: d/a.txt was created while watching; its event was uploaded
\* and the event of the directory d was taken and dropped.
C11_Witness ==
  /\ fsOps = 1
  /\ observer = "running"
  /\ queue = <<>>
  /\ up["obs"].pc = "idle"
  /\ last["a.txt"].src = "event"
  /\ last["a.txt"].path = PathDA
  /\ last["a.txt"].err = "none"

\* ------------------------------------------------------------------ C12
\* Every file event the observer takes starts a fresh upload_file call,
\* whatever the last call for the file uploaded; a call leaves its lookup
\* only by the lookup's answer or error; a call that ends without error has
\* sent a create or an update.
C12_Step ==
  /\ (queue # <<>> /\ queue' = Tail(queue) /\ ~Head(queue).is_directory
        /\ Head(queue).kind \in {"created", "modified"}) =>
       /\ up["obs"].pc = "idle"
       /\ up'["obs"].pc = "list"
       /\ up'["obs"].path = Head(queue).path
       /\ up'["obs"].call.op = "none"
  /\ (up["obs"].pc = "list" /\ up'["obs"].pc # "list") =>
       \/ up'["obs"].pc = "send" /\ up'["obs"].snap = drive
       \/ up'["obs"].pc = "idle" /\ last'[up["obs"].path[Len(up["obs"].path)]].err = "lookup"
  /\ (up["obs"].pc # "idle" /\ up'["obs"].pc = "idle"
        /\ last'[up["obs"].path[Len(up["obs"].path)]].err = "none") =>
       (up["obs"].pc = "recv" /\ up["obs"].call.op \in {"create", "update"})

\* C12: no debouncing or coalescing: each created or modified event
\* delivered for a regular file triggers its own upload_file call, with its
\* own lookup and, absent errors, its own create or update, also when the
\* file's bytes did not change between the events.
C12_NoDebouncing == [][C12_Step]_vars

\* C12 witness: a second event for a file whose bytes did not change has its
\* own update in flight.
C12_Witness ==
  /\ Issued("obs")
  /\ up["obs"].call.op = "update"
  /\ last[Name(up["obs"].path)].src = "event"
  /\ last[Name(up["obs"].path)].err = "none"
  /\ last[Name(up["obs"].path)].path = up["obs"].path
  /\ last[Name(up["obs"].path)].call.content = up["obs"].call.content

\* ------------------------------------------------------------------ C13
\* A handler call that succeeds right after a successful handler call for
\* the same path with the same bytes leaves the drive as it found it.
C13_Step ==
  (/\ Issued("obs") /\ Ends("obs")
   /\ last'[up["obs"].path[Len(up["obs"].path)]].err = "none"
   /\ last[up["obs"].path[Len(up["obs"].path)]].err = "none"
   /\ last[up["obs"].path[Len(up["obs"].path)]].src = "event"
   /\ last[up["obs"].path[Len(up["obs"].path)]].path = up["obs"].path
   /\ last[up["obs"].path[Len(up["obs"].path)]].call.content = up["obs"].call.content) =>
    /\ up["obs"].call.op = "update"
    /\ drive' = drive

\* C13: for unchanged local content repeated reconciliation is idempotent on
\* the remote state: after two or more successful reconciliations of a file
\* the drive is what it was after the first (one object, same content).
C13_RepeatIsIdempotent == [][C13_Step]_vars

\* C13 witness: the first event of a new file created its object, and the
\* update of a second event with the same bytes is in flight.
C13_Witness ==
  /\ Issued("obs")
  /\ up["obs"].call.op = "update"
  /\ last[Name(up["obs"].path)].src = "event"
  /\ last[Name(up["obs"].path)].err = "none"
  /\ last[Name(up["obs"].path)].call.op = "create"
  /\ last[Name(up["obs"].path)].path = up["obs"].path
  /\ last[Name(up["obs"].path)].call.content = up["obs"].call.content
  /\ drive[Least(Present(drive, Name(up["obs"].path)))].content = up["obs"].call.content

\* ------------------------------------------------------------------ C14
\* The record the ending upload_file call of thread t leaves.
Outcome(t) ==
  IF t = "main" THEN scanned'[Len(scanned')] ELSE last'[up[t].path[Len(up[t].path)]]

\* C14 as stated: a failed lookup is not caught in upload_file.
C14_AsStated ==
  /\ \A i \in DOMAIN scanned : scanned[i].err = "lookup" => ~scanned[i].caught
  /\ \A n \in Names : last[n].err = "lookup" => ~last[n].caught

\* A call whose lookup failed was ended by upload_file's own except clause
\* and has built no request.
C14_Inv ==
  /\ \A i \in DOMAIN scanned :
       scanned[i].err = "lookup" => (scanned[i].caught /\ scanned[i].call.op = "none")
  /\ \A n \in Names :
       last[n].err = "lookup" => (last[n].caught /\ last[n].call.op = "none")
\* A call in its lookup has issued nothing; when the lookup fails the call
\* ends there, and the step changes neither the drive nor main()'s position
\* nor the entries left to scan nor the observer nor its queue.
C14_Step ==
  \A t \in Threads :
    (up[t].pc = "list" /\ Ends(t)) =>
      /\ Outcome(t).err = "lookup"
      /\ Outcome(t).caught
      /\ up[t].call.op = "none"
      /\ drive' = drive
      /\ mainPc' = mainPc
      /\ all_files' = all_files
      /\ observer' = observer
      /\ queue' = queue

\* C14: a failed lookup is caught by upload_file's own except clause; it
\* ends only that file's attempt, for which no create or update is issued,
\* and the scan loop and the observer go on.
C14_LookupFailureCaughtLocally == []C14_Inv /\ [][C14_Step]_vars

\* C14 witness: the lookup of an event failed and was caught, and the
\* request of a later event is in flight.
C14_Witness ==
  /\ \E n \in Names : last[n].src = "event" /\ last[n].err = "lookup" /\ last[n].caught
  /\ Issued("obs")

\* ------------------------------------------------------------------ C15
\* A call that ended on a vanished file was caught and has built no request.
C15_Inv ==
  /\ \A i \in DOMAIN scanned :
       scanned[i].err = "io" => (scanned[i].caught /\ scanned[i].call.op = "none")
  /\ \A n \in Names :
       last[n].err = "io" => (last[n].caught /\ last[n].call.op = "none")
\* A call about to open a file that is gone never gets to issue a request
\* and ends with a caught IOError; the step in which it ends changes neither
\* the drive nor main()'s position nor the entries left to scan nor the
\* observer nor its queue.
C15_Step ==
  \A t \in Threads :
    /\ (up[t].pc = "send" /\ ~IsFile(fs, up[t].path) /\ up'[t] # up[t] /\ mainPc' # "killed") =>
         /\ Ends(t)
         /\ Outcome(t).err = "io"
    /\ (up[t].pc = "send" /\ Ends(t)) =>
         /\ ~IsFile(fs, up[t].path)
         /\ Outcome(t).caught
         /\ up[t].call.op = "none"
         /\ drive' = drive
         /\ mainPc' = mainPc
         /\ all_files' = all_files
         /\ observer' = observer
         /\ queue' = queue

\* C15: when the file has disappeared between its event (or its listing by
\* the scan) and the upload, the IOError is caught like an upload error: no
\* create or update is issued for the file, the drive is unchanged, and the
\* later files and events are processed.
C15_VanishedFileFailsGracefully == []C15_Inv /\ [][C15_Step]_vars

\* C15 witness: the file of an event was gone when upload_file opened it,
\* and the observer runs with a further event waiting.
C15_Witness ==
  /\ \E n \in Names : last[n].src = "event" /\ last[n].err = "io" /\ last[n].caught
  /\ observer = "running"
  /\ queue # <<>>

\* ------------------------------------------------------------------ C16
\* The ids of the live folders of the configured name.
LiveFolders(d) ==
  {i \in DOMAIN d :
     d[i].name = DRIVE_FOLDER_NAME /\ d[i].mimeType = FolderMime /\ ~d[i].trashed}

\* create_drive_folder returns the first live folder of the name and leaves
\* the drive alone, or, when there is none, creates one and returns it; it
\* is never entered again, and afterwards no step changes the id or adds a
\* folder.
C16_Step ==
  /\ (mainPc = "folder" /\ mainPc' = "glob") =>
       IF LiveFolders(drive) = {}
         THEN /\ drive' = Append(drive, DriveFolder(RootId))
              /\ drive_folder_id' = Len(drive) + 1
         ELSE /\ drive' = drive
              /\ drive_folder_id' = Least(LiveFolders(drive))
  /\ mainPc' = "folder" => mainPc = "folder"
  /\ mainPc # "folder" =>
       /\ drive_folder_id' = drive_folder_id
       /\ drive' # drive => LiveFolders(drive') = LiveFolders(drive)
\* Every upload_file call runs after it, and looks up and creates in the
\* folder it returned.
C16_Inv ==
  /\ mainPc \notin {"folder", "crashed", "killed"} => drive_folder_id \in LiveFolders(drive)
  /\ \A t \in Threads :
       up[t].pc # "idle" =>
         /\ drive_folder_id \in LiveFolders(drive)
         /\ \A k \in DOMAIN up[t].files : up[t].snap[up[t].files[k]].parent = drive_folder_id
         /\ up[t].call.op = "create" => up[t].call.parent = drive_folder_id

\* C16: container setup is idempotent: create_drive_folder creates a folder
\* if and only if its lookup finds no non-trashed folder of the configured
\* name, and otherwise reuses the first match; it runs once at startup and
\* every reconciliation uses the id it returned, unchanged.
C16_FolderSetupIdempotent == []C16_Inv /\ [][C16_Step]_vars

\* C16 witness: only a trashed folder and a plain file carried the name, so
\* a third object, the folder, was created and a file is uploaded into it.
C16_Witness ==
  /\ Len(drive) >= 3
  /\ drive[1].trashed
  /\ drive[2].mimeType # FolderMime
  /\ drive_folder_id = 3
  /\ Issued("main")
  /\ up["main"].call.parent = 3

\* ------------------------------------------------------------------ C17
\* The observer is started by observer.start() as main() enters its sleep
\* loop, stopped by the interrupt of that loop, and its thread ends after
\* that; once stopped it queues no event and starts no handler call; main()
\* exits only when the thread has ended.
C17_Step ==
  /\ observer' # observer =>
       \/ observer = "unstarted" /\ observer' = "running" /\ mainPc' = "sleep"
       \/ observer = "running" /\ observer' = "stopping" /\ mainPc = "sleep" /\ mainPc' = "join"
       \/ observer = "stopping" /\ observer' = "stopped" /\ up["obs"].pc = "idle"
  /\ observer \in {"stopping", "stopped"} =>
       /\ queue' = queue
       /\ up["obs"].pc = "idle" => up'["obs"].pc = "idle"
  /\ (mainPc # "exited" /\ mainPc' = "exited") =>
       (mainPc = "join" /\ observer = "stopped" /\ up["obs"].pc = "idle")
\* The observer runs exactly while main() is in its sleep loop; a handler
\* call runs only on a started, not yet ended observer.
C17_Inv ==
  /\ observer = "running" <=> mainPc = "sleep"
  /\ up["obs"].pc # "idle" => observer \in {"running", "stopping"}
  /\ mainPc = "exited" => observer = "stopped"
  /\ mainPc \in {"folder", "glob", "scan"} => observer = "unstarted"
\* After the interrupt main() exits.
C17_Exits == (mainPc = "join") ~> (mainPc = "exited")

\* C17: the observer starts idle, watches from observer.start() on, and on
\* the interrupt of the sleep loop is stopped: after the stop no event is
\* handed to upload_file, and the process exits once the handler call in
\* flight, if any, has returned.
C17_WatchLifecycle == []C17_Inv /\ [][C17_Step]_vars /\ C17_Exits

\* C17 witness: the process has exited after the observer handled an event
\* and was stopped with an event still waiting.
C17_Witness ==
  /\ mainPc = "exited"
  /\ observer = "stopped"
  /\ queue # <<>>
  /\ \E n \in Names : last[n].src = "event"

\* ------------------------------------------------------------------ C18
\* No step takes a name from at most one live object in the folder to more
\* than one, and an object is added to the folder only under a name that no
\* live object in it carries.
C18_Step ==
  (drive_folder_id # 0 /\ drive' # drive) =>
    /\ \A n \in Names :
         Cardinality(Present(drive, n)) <= 1 => Cardinality(Present(drive', n)) <= 1
    /\ Len(drive') > Len(drive) =>
         /\ Len(drive') = Len(drive) + 1
         /\ drive'[Len(drive')].parent = drive_folder_id
         /\ Present(drive, drive'[Len(drive')].name) = {}
\* A create in flight is for a name no live object in the folder carries.
C18_Inv ==
  \A t \in Threads :
    (Issued(t) /\ up[t].call.op = "create") => Present(drive, up[t].call.name) = {}

\* C18: if the folder starts with at most one non-trashed object per name
\* and only this process changes it, then after any sequence of upload_file
\* calls, failed or not, it still holds at most one per name: no second
\* object is ever created for a name that has one.
C18_NameUniqueness == []C18_Inv /\ [][C18_Step]_vars

\* C18 witness: the scan of a folder that held one of the two names has left
\* one object per name, and the request of a later event has failed.
C18_Witness ==
  /\ mainPc = "sleep"
  /\ Len(drive) >= 3
  /\ \A n \in Names : Cardinality(Present(drive, n)) = 1
  /\ \E n \in Names : last[n].src = "event" /\ last[n].err = "upload"

\* ------------------------------------------------------------------ C19
\* The ids of the objects a step changes or adds.
Touched ==
  {i \in DOMAIN drive' : i \notin DOMAIN drive \/ drive'[i] # drive[i]}

\* A step that changes the drive removes no object, changes no object's
\* name, folder or trashed flag, and touches one object: for an upload_file
\* call of a file named n, the first live object named n in the folder, or a
\* new object named n in the folder.
C19_Step ==
  drive' # drive =>
    /\ Len(drive') >= Len(drive)
    /\ \A i \in DOMAIN drive :
         /\ drive'[i].name = drive[i].name
         /\ drive'[i].parent = drive[i].parent
         /\ drive'[i].trashed = drive[i].trashed
    /\ Cardinality(Touched) = 1
    /\ drive_folder_id # 0 =>
         \E t \in Threads :
           /\ Issued(t)
           /\ \A i \in Touched :
                IF i \in DOMAIN drive
                  THEN /\ up[t].call.op = "update"
                       /\ i = Least(Present(drive, Name(up[t].path)))
                  ELSE /\ up[t].call.op = "create"
                       /\ drive'[i].name = Name(up[t].path)
                       /\ drive'[i].parent = drive_folder_id
                       /\ ~drive'[i].trashed

\* C19: an upload_file call of a file named n changes at most one object of
\* the drive: on an update the first match of the lookup, on a create the
\* new object; every other object is left as it was, the other objects named
\* n included, and no object is ever deleted or renamed.
C19_Frame == [][C19_Step]_vars

\* C19 witness: of two objects named a.txt the first was updated and the
\* second left alone, and b was created behind them.
C19_Witness ==
  /\ Len(drive) = 4
  /\ Present(drive, "a.txt") = {2, 3}
  /\ drive[2].content = 2
  /\ drive[3].content = 2
  /\ drive[4].name = "b"
  /\ mainPc = "scan" /\ ScanDone
  /\ \A i \in DOMAIN scanned : scanned[i].err = "none"

\* ------------------------------------------------------------------ C20
\* A request issued for a file whose final path component was last uploaded,
\* with success, from another path is an update of the first live object of
\* that name in the folder.
C20_Inv ==
  (/\ Issued("obs")
   /\ last[up["obs"].path[Len(up["obs"].path)]].src = "event"
   /\ last[up["obs"].path[Len(up["obs"].path)]].err = "none"
   /\ last[up["obs"].path[Len(up["obs"].path)]].path # up["obs"].path) =>
    /\ up["obs"].call.op = "update"
    /\ Present(drive, up["obs"].path[Len(up["obs"].path)]) # {}
    /\ up["obs"].call.fileId = Least(Present(drive, up["obs"].path[Len(up["obs"].path)]))
\* When that request succeeds no object is added, the object holds the
\* bytes of the file uploaded last, and a name that had one object has one.
C20_Step ==
  (/\ Issued("obs") /\ Ends("obs")
   /\ last'[up["obs"].path[Len(up["obs"].path)]].err = "none"
   /\ last[up["obs"].path[Len(up["obs"].path)]].src = "event"
   /\ last[up["obs"].path[Len(up["obs"].path)]].err = "none"
   /\ last[up["obs"].path[Len(up["obs"].path)]].path # up["obs"].path) =>
    /\ Len(drive') = Len(drive)
    /\ drive'[up["obs"].call.fileId].content = up["obs"].call.content
    /\ Present(drive', up["obs"].path[Len(up["obs"].path)])
         = Present(drive, up["obs"].path[Len(up["obs"].path)])
    /\ last'[up["obs"].path[Len(up["obs"].path)]].path = up["obs"].path

\* C20: uploads are keyed by the final path component only: two local files
\* with the same name in different directories of the watched tree go to
\* the same object; the event of the second yields an update of the object
\* created for the first, never a second object, and the object holds the
\* bytes of whichever was uploaded last.
C20_FlatNameCollision == []C20_Inv /\ [][C20_Step]_vars

\* C20 witness: the event of a.txt created the object, and the update of the
\* event of d/a.txt, with other bytes, is in flight against it.
C20_Witness ==
  /\ Issued("obs")
  /\ up["obs"].path = PathDA
  /\ up["obs"].call.op = "update"
  /\ last["a.txt"].src = "event"
  /\ last["a.txt"].path = PathA
  /\ last["a.txt"].err = "none"
  /\ last["a.txt"].call.op = "create"
  /\ last["a.txt"].call.content # up["obs"].call.content
  /\ Cardinality(Present(drive, "a.txt")) = 1

====
